---- MODULE Spec2Model ----
(***************************************************************************)
(* Model of src/dma.rs: the DMA transfer lifecycle                         *)
(* (Transfer<Ready> -> Transfer<Started> -> resources), the per-channel    *)
(* register operations of impl_channel!, and the DMA hardware that raises  *)
(* the completion and error flags the code polls.                          *)
(*                                                                         *)
(* The software is one execution context: at most one of new / start /     *)
(* is_active / wait runs at a time (pc, cur).  The hardware runs           *)
(* concurrently and may act between any two software steps.                *)
(***************************************************************************)
EXTENDS Integers, Sequences, FiniteSets, TLC

\* ---- bounds of the model ------------------------------------------------
NumChannels    == 2    \* channels modelled (the chip has 7, all alike)
MaxChannelSets == 2    \* Channels values ever built by Channels::new
MaxBuilt       == 2    \* transfers constructed in one run

\* ---- program constants --------------------------------------------------
U16Max == 65535        \* u16::max_value()
U16Mod == 65536        \* `as u16` keeps the low 16 bits
CxsMod == 16           \* CSELR.CxS is a 4-bit field

FROMPERIPHERAL == 0    \* ccr1::DIRW::FROMPERIPHERAL
FROMMEMORY     == 1    \* ccr1::DIRW::FROMMEMORY

Channels == 1..NumChannels
Slots    == 1..MaxBuilt

\* ---- inputs the callers choose from --------------------------------------
Targets         == {[request |-> 5]}
PeripheralAddrs == {1073741824}
Buffers         == {"b16", "bmax", "bover"}
\* buffers that are DerefMut; "bmax" is a shared slice, readable only
MutBuffers      == {"b16", "bover"}

REQUEST(t) == t.request

\* buffer.as_slice().len()
BufLen(b) == CASE b = "b16"   -> 16
               [] b = "bmax"  -> 65535
               [] b = "bover" -> 65536

\* buffer.as_slice().as_ptr() as u32
BufAddr(b) == CASE b = "b16"   -> 536870912
                [] b = "bmax"  -> 536875008
                [] b = "bover" -> 536944640

VARIABLES
    tokens,     \* tokens[c]: Channel-c values the caller holds, not in a Transfer
    sets,       \* number of Channels values built so far
    bufs,       \* buffers the caller holds
    built,      \* number of transfers constructed so far
    transfers,  \* transfers[s]: the s-th Transfer constructed, NoTransfer before and after
    cselr,      \* DMA_CSELR.CxS per channel
    cpar,       \* DMA_CPARx
    cmar,       \* DMA_CMARx
    cndtr,      \* DMA_CNDTRx
    ccr,        \* DMA_CCRx
    tcif,       \* DMA_ISR.TCIFx
    teif,       \* DMA_ISR.TEIFx
    mem,        \* mem[b]: contents of buffer b
    pc,         \* position of the running software operation
    cur,        \* its arguments and locals
    ret,        \* what the last completed software operation returned
    poll,       \* the last Transfer::is_active call: its transfer and its value
    log         \* register writes and fences of the running operation, in order

regs == <<cselr, cpar, cmar, cndtr, ccr, tcif, teif>>
vars == <<tokens, sets, bufs, built, transfers, cselr, cpar, cmar, cndtr, ccr, tcif,
          teif, mem, pc, cur, ret, poll, log>>

NoTransfer == [state |-> "None"]
NoCur      == [op |-> "none"]
NoRet      == [op |-> "none"]

\* reset value of DMA_CCRx
CcrReset == [en |-> FALSE, dir |-> 0, mem2mem |-> FALSE, pl |-> 0, msize |-> 0,
             psize |-> 0, minc |-> FALSE, pinc |-> FALSE, circ |-> FALSE,
             teie |-> FALSE, htie |-> FALSE, tcie |-> FALSE]

\* DMA::new: the peripheral is reset and Channels::new builds one of each channel
Init ==
    /\ tokens = [c \in Channels |-> 1]
    /\ sets = 1
    /\ bufs = Buffers
    /\ built = 0
    /\ transfers = [s \in Slots |-> NoTransfer]
    /\ cselr = [c \in Channels |-> 0]
    /\ cpar = [c \in Channels |-> 0]
    /\ cmar = [c \in Channels |-> 0]
    /\ cndtr = [c \in Channels |-> 0]
    /\ ccr = [c \in Channels |-> CcrReset]
    /\ tcif = [c \in Channels |-> FALSE]
    /\ teif = [c \in Channels |-> FALSE]
    /\ mem = [b \in Buffers |-> 0]
    /\ pc = "idle"
    /\ cur = NoCur
    /\ ret = NoRet
    /\ poll = NoRet
    /\ log = <<>>

\* Channels::new: a public constructor, one fresh value of every channel type
ChannelsNew ==
    /\ pc = "idle"
    /\ sets < MaxChannelSets
    /\ sets' = sets + 1
    /\ tokens' = [c \in Channels |-> tokens[c] + 1]
    /\ ret' = NoRet
    /\ poll' = NoRet
    /\ UNCHANGED <<bufs, built, transfers, regs, mem, pc, cur, log>>

\* ---- impl Channel for $channel -------------------------------------------
\* each operator is the register state after the call

\* mutant of select_target: CSELR is written whole, the other selectors are zeroed
select_target_write(c, t) == [i \in Channels |-> IF i = c THEN REQUEST(t) % CxsMod ELSE 0]

select_target(c, t) == [cselr EXCEPT ![c] = REQUEST(t) % CxsMod]

set_peripheral_address(c, address) == [cpar EXCEPT ![c] = address]

set_memory_address(c, address) == [cmar EXCEPT ![c] = address]

set_transfer_len(c, len) == [cndtr EXCEPT ![c] = len]

\* mutant of configure: the configuration write also sets EN
configureEnables(c, dir) ==
    [ccr EXCEPT ![c] = [CcrReset EXCEPT !.minc = TRUE, !.dir = dir, !.en = TRUE]]

\* ccr.write starts from the reset value: every field not named, EN included, is 0
configure(c, dir) ==
    [ccr EXCEPT ![c] = [CcrReset EXCEPT !.mem2mem = FALSE, !.pl = 0, !.msize = 0,
                                        !.psize = 0, !.minc = TRUE, !.pinc = FALSE,
                                        !.circ = FALSE, !.dir = dir, !.teie = FALSE,
                                        !.htie = FALSE, !.tcie = FALSE]]

\* Channel::start: ccr.modify sets EN and keeps the other fields
ChannelStart(c) == [ccr EXCEPT ![c].en = TRUE]

\* mutant of is_active: the channel is never reported active
is_active_never(c) == FALSE

\* Channel::is_active: the value returned
is_active(c) == ~tcif[c]

\* mutant of IsActiveTcif: the completion flag is read and not cleared
IsActiveTcifKeepsFlag(c) == tcif

\* Channel::is_active: TCIF after the call (IFCR.CTCIFx written when complete)
IsActiveTcif(c) == IF tcif[c] THEN [tcif EXCEPT ![c] = FALSE] ELSE tcif

\* mutant of IsActiveCcr: the channel is left enabled
IsActiveCcrKeepsEnabled(c) == ccr

\* Channel::is_active: CCR after the call (EN cleared when complete)
IsActiveCcr(c) == IF tcif[c] THEN [ccr EXCEPT ![c].en = FALSE] ELSE ccr

\* mutant of error_occured: the error flag is never reported
error_occured_never(c) == FALSE

\* Channel::error_occured: the value returned
error_occured(c) == teif[c]

\* mutant of ErrorOccuredTeif: the flag is read and not cleared
ErrorOccuredKeepsFlag(c) == teif

\* Channel::error_occured: TEIF after the call (IFCR.CTEIFx written when set)
ErrorOccuredTeif(c) == IF teif[c] THEN [teif EXCEPT ![c] = FALSE] ELSE teif

\* ---- Transfer<Ready>::new -------------------------------------------------
\* mutant of LengthOk: the bound is off by one
LengthOkOffByOne(b) == BufLen(b) <= U16Max + 1

\* the condition of the assert!
LengthOk(b) == BufLen(b) <= U16Max

\* entry: the caller moves a target, a channel and a buffer into new
NewEnter(t, c, b, address, dir) ==
    /\ pc = "idle"
    /\ tokens[c] > 0
    /\ b \in bufs
    /\ built < MaxBuilt
    /\ tokens' = [tokens EXCEPT ![c] = tokens[c] - 1]
    /\ bufs' = bufs \ {b}
    /\ pc' = "new_assert"
    /\ cur' = [op |-> "new", target |-> t, channel |-> c, buffer |-> b,
               address |-> address, dir |-> dir]
    /\ ret' = NoRet
    /\ poll' = NoRet
    /\ log' = <<>>
    /\ UNCHANGED <<sets, built, transfers, regs, mem>>

\* B: Deref, B::Target: AsSlice
memory_to_peripheral ==
    \E t \in Targets, c \in Channels, b \in Buffers, a \in PeripheralAddrs :
        NewEnter(t, c, b, a, FROMMEMORY)

\* B: DerefMut, B::Target: AsMutSlice
peripheral_to_memory ==
    \E t \in Targets, c \in Channels, b \in MutBuffers, a \in PeripheralAddrs :
        NewEnter(t, c, b, a, FROMPERIPHERAL)

\* assert!(buffer.as_slice().len() <= u16::max_value() as usize)
NewAssert ==
    /\ pc = "new_assert"
    /\ pc' = IF LengthOk(cur.buffer) THEN "new_select" ELSE "panicked"
    /\ UNCHANGED <<tokens, sets, bufs, built, transfers, regs, mem, cur, ret, poll, log>>

NewSelectTarget ==
    /\ pc = "new_select"
    /\ cselr' = select_target(cur.channel, cur.target)
    /\ log' = Append(log, "cselr")
    /\ pc' = "new_cpar"
    /\ UNCHANGED <<tokens, sets, bufs, built, transfers, cpar, cmar, cndtr, ccr, tcif, teif,
                   mem, cur, ret, poll>>

NewSetPeripheralAddress ==
    /\ pc = "new_cpar"
    /\ cpar' = set_peripheral_address(cur.channel, cur.address)
    /\ log' = Append(log, "cpar")
    /\ pc' = "new_cmar"
    /\ UNCHANGED <<tokens, sets, bufs, built, transfers, cselr, cmar, cndtr, ccr, tcif, teif,
                   mem, cur, ret, poll>>

NewSetMemoryAddress ==
    /\ pc = "new_cmar"
    /\ cmar' = set_memory_address(cur.channel, BufAddr(cur.buffer))
    /\ log' = Append(log, "cmar")
    /\ pc' = "new_cndtr"
    /\ UNCHANGED <<tokens, sets, bufs, built, transfers, cselr, cpar, cndtr, ccr, tcif, teif,
                   mem, cur, ret, poll>>

NewSetTransferLen ==
    /\ pc = "new_cndtr"
    /\ cndtr' = set_transfer_len(cur.channel, BufLen(cur.buffer) % U16Mod)
    /\ log' = Append(log, "cndtr")
    /\ pc' = "new_ccr"
    /\ UNCHANGED <<tokens, sets, bufs, built, transfers, cselr, cpar, cmar, ccr, tcif, teif,
                   mem, cur, ret, poll>>

\* the resources a new Transfer holds
NewResources == [target |-> cur.target, channel |-> cur.channel, buffer |-> cur.buffer]

\* mutant of NewTransfer: the constructor marks the transfer Started
NewTransferStarted == [state |-> "Started", res |-> NewResources, given |-> NewResources,
                       done |-> FALSE, first |-> "none"]

\* the Transfer new returns.  res and state are the struct's fields; the other
\* fields are history: given = the resources passed to new, done = an is_active
\* call on this transfer has returned false, first = the flag the hardware
\* raised first on the channel while this transfer was Started
NewTransfer == [state |-> "Ready", res |-> NewResources, given |-> NewResources,
                done |-> FALSE, first |-> "none"]

\* channel.configure(handle, dir), then the Ready transfer is returned
NewConfigure ==
    /\ pc = "new_ccr"
    /\ ccr' = configure(cur.channel, cur.dir)
    /\ log' = Append(log, "ccr")
    /\ built' = built + 1
    /\ transfers' = [transfers EXCEPT ![built + 1] = NewTransfer]
    /\ ret' = [op |-> "new", slot |-> built + 1]
    /\ poll' = NoRet
    /\ pc' = "idle"
    /\ cur' = NoCur
    /\ UNCHANGED <<tokens, sets, bufs, cselr, cpar, cmar, cndtr, tcif, teif, mem>>

\* ---- Transfer<Ready>::start ----------------------------------------------
\* the state marker of the Transfer that start returns
StartState == "Started"

\* mutant of StartFence: start is entered and no fence is issued
StartFenceOmitted(s) ==
    /\ pc = "idle"
    /\ transfers[s].state = "Ready"
    /\ pc' = "start_en"
    /\ cur' = [op |-> "start", slot |-> s]
    /\ log' = <<>>
    /\ ret' = NoRet
    /\ poll' = NoRet
    /\ UNCHANGED <<tokens, sets, bufs, built, transfers, regs, mem>>

\* start(self) is entered and compiler_fence(Ordering::SeqCst) is issued
StartFence(s) ==
    /\ pc = "idle"
    /\ transfers[s].state = "Ready"
    /\ pc' = "start_en"
    /\ cur' = [op |-> "start", slot |-> s]
    /\ log' = <<"fence">>
    /\ ret' = NoRet
    /\ poll' = NoRet
    /\ UNCHANGED <<tokens, sets, bufs, built, transfers, regs, mem>>

\* self.res.channel.start(), then the Started transfer is returned
StartEnable ==
    /\ pc = "start_en"
    /\ LET s == cur.slot
           c == transfers[s].res.channel
       IN /\ ccr' = ChannelStart(c)
          /\ transfers' = [transfers EXCEPT ![s].state = StartState]
          /\ ret' = [op |-> "start", slot |-> s]
    /\ log' = Append(log, "en")
    /\ pc' = "idle"
    /\ cur' = NoCur
    /\ UNCHANGED <<tokens, sets, bufs, built, cselr, cpar, cmar, cndtr, tcif, teif, mem, poll>>

\* ---- Transfer<Started>::is_active -----------------------------------------
\* the call's effect on the registers and on the record of the transfer in slot s
IsActiveCall(s) ==
    LET c == transfers[s].res.channel
    IN /\ tcif' = IsActiveTcif(c)
       /\ ccr' = IsActiveCcr(c)
       /\ transfers' = [transfers EXCEPT ![s].done = @ \/ ~is_active(c)]
       /\ poll' = [op |-> "is_active", slot |-> s, value |-> is_active(c),
                   after_done |-> transfers[s].done]

\* the caller polls a Started transfer
TransferIsActive(s) ==
    /\ pc = "idle"
    /\ transfers[s].state = "Started"
    /\ IsActiveCall(s)
    /\ ret' = NoRet
    /\ UNCHANGED <<tokens, sets, bufs, built, cselr, cpar, cmar, cndtr, teif, mem, pc, cur,
                   log>>

\* ---- Transfer<Started>::wait ----------------------------------------------
WaitEnter(s) ==
    /\ pc = "idle"
    /\ transfers[s].state = "Started"
    /\ pc' = "wait_loop"
    /\ cur' = [op |-> "wait", slot |-> s, after_done |-> transfers[s].done]
    /\ log' = <<>>
    /\ ret' = NoRet
    /\ poll' = NoRet
    /\ UNCHANGED <<tokens, sets, bufs, built, transfers, regs, mem>>

\* while self.is_active()
WaitIsActive ==
    /\ pc = "wait_loop"
    /\ IsActiveCall(cur.slot)
    /\ LET c == transfers[cur.slot].res.channel
       IN IF is_active(c)
          THEN pc' = "wait_err" /\ log' = log
          ELSE pc' = "wait_fence" /\ log' = Append(log, "complete")
    /\ UNCHANGED <<tokens, sets, bufs, built, cselr, cpar, cmar, cndtr, teif, mem, cur, ret>>

\* mutant of WaitResources: the buffer handed back is not the transfer's
WaitResourcesOtherBuffer(s) ==
    [transfers[s].res EXCEPT !.buffer = CHOOSE b \in Buffers : b # transfers[s].res.buffer]

\* the resources wait hands back
WaitResources(s) == transfers[s].res

\* wait returns: the transfer is consumed, its resources go back to the caller
WaitReturn(result) ==
    LET s == cur.slot
        r == WaitResources(s)
    IN /\ ret' = [op |-> "wait", slot |-> s, result |-> result, res |-> r,
                  given |-> transfers[s].given, first |-> transfers[s].first]
       /\ transfers' = [transfers EXCEPT ![s] = NoTransfer]
       /\ tokens' = [tokens EXCEPT ![r.channel] = @ + 1]
       /\ bufs' = bufs \cup {r.buffer}
       /\ pc' = "idle"
       /\ cur' = NoCur

\* if self.res.channel.error_occured() { return Err((self.res, Error)) }   (in the loop)
WaitLoopError ==
    /\ pc = "wait_err"
    /\ LET c == transfers[cur.slot].res.channel
       IN /\ teif' = ErrorOccuredTeif(c)
          /\ IF error_occured(c)
             THEN WaitReturn("Err")
             ELSE /\ pc' = "wait_loop"
                  /\ UNCHANGED <<tokens, bufs, transfers, cur, ret>>
    /\ poll' = NoRet
    /\ UNCHANGED <<sets, built, cselr, cpar, cmar, cndtr, ccr, tcif, mem, log>>

\* mutant of WaitFence: no fence between the loop and the final check
WaitFenceOmitted ==
    /\ pc = "wait_fence"
    /\ log' = log
    /\ pc' = "wait_check"
    /\ poll' = NoRet
    /\ UNCHANGED <<tokens, sets, bufs, built, transfers, regs, mem, cur, ret>>

\* compiler_fence(Ordering::SeqCst) after the loop
WaitFence ==
    /\ pc = "wait_fence"
    /\ log' = Append(log, "fence")
    /\ pc' = "wait_check"
    /\ poll' = NoRet
    /\ UNCHANGED <<tokens, sets, bufs, built, transfers, regs, mem, cur, ret>>

\* the error check after the fence, then Ok(self.res)
WaitFinalCheck ==
    /\ pc = "wait_check"
    /\ LET c == transfers[cur.slot].res.channel
       IN /\ teif' = ErrorOccuredTeif(c)
          /\ WaitReturn(IF error_occured(c) THEN "Err" ELSE "Ok")
    /\ log' = Append(log, "check")
    /\ poll' = NoRet
    /\ UNCHANGED <<sets, built, cselr, cpar, cmar, cndtr, ccr, tcif, mem>>

\* ---- the DMA hardware -----------------------------------------------------
SwVars == <<tokens, sets, bufs, built, pc, cur, ret, poll, log>>

\* history: every Started transfer on channel c that has seen no flag yet sees `flag` first
FirstFlag(c, flag) ==
    [s \in Slots |->
        IF /\ transfers[s].state = "Started"
           /\ transfers[s].res.channel = c
           /\ transfers[s].first = "none"
        THEN [transfers[s] EXCEPT !.first = flag]
        ELSE transfers[s]]

\* an enabled channel finishes its transfer: TCIFx is set
HwComplete(c) ==
    /\ ccr[c].en
    /\ tcif' = [tcif EXCEPT ![c] = TRUE]
    /\ transfers' = FirstFlag(c, "complete")
    /\ UNCHANGED <<SwVars, cselr, cpar, cmar, cndtr, ccr, teif, mem>>

\* an enabled channel hits a bus error: TEIFx is set; the hardware may clear EN
HwError(c, disable) ==
    /\ ccr[c].en
    /\ teif' = [teif EXCEPT ![c] = TRUE]
    /\ ccr' = IF disable THEN [ccr EXCEPT ![c].en = FALSE] ELSE ccr
    /\ transfers' = FirstFlag(c, "error")
    /\ UNCHANGED <<SwVars, cselr, cpar, cmar, cndtr, tcif, mem>>

\* an enabled peripheral-to-memory channel stores into the buffer at CMARx
HwWrite(c) ==
    /\ ccr[c].en
    /\ ccr[c].dir = FROMPERIPHERAL
    /\ cndtr[c] > 0
    /\ \E b \in Buffers :
          /\ BufAddr(b) = cmar[c]
          /\ mem' = [mem EXCEPT ![b] = 1]
    /\ UNCHANGED <<SwVars, transfers, regs>>

Software ==
    \/ ChannelsNew
    \/ memory_to_peripheral
    \/ peripheral_to_memory
    \/ NewAssert
    \/ NewSelectTarget
    \/ NewSetPeripheralAddress
    \/ NewSetMemoryAddress
    \/ NewSetTransferLen
    \/ NewConfigure
    \/ \E s \in Slots : StartFence(s)
    \/ StartEnable
    \/ \E s \in Slots : TransferIsActive(s)
    \/ \E s \in Slots : WaitEnter(s)
    \/ WaitIsActive
    \/ WaitLoopError
    \/ WaitFence
    \/ WaitFinalCheck

Hardware ==
    \/ \E c \in Channels : HwComplete(c)
    \/ \E c \in Channels, d \in BOOLEAN : HwError(c, d)
    \/ \E c \in Channels : HwWrite(c)

Next == Software \/ Hardware

Spec == Init /\ [][Next]_vars

\* the software runs whenever it has a step to take, and an enabled channel
\* sooner or later raises its completion flag or its error flag
LiveSpec ==
    /\ Spec
    /\ WF_vars(WaitIsActive)
    /\ WF_vars(WaitLoopError)
    /\ WF_vars(WaitFence)
    /\ WF_vars(WaitFinalCheck)
    /\ \A c \in Channels : WF_vars(HwComplete(c) \/ HwError(c, TRUE) \/ HwError(c, FALSE))

\* ---- properties -----------------------------------------------------------

\* C1: once an is_active call on a transfer has returned false, every later
\* is_active call on that transfer returns false too
C1_IsActiveStaysFalse ==
    poll.op = "is_active" => (poll.after_done => ~poll.value)

\* C2: a wait entered after is_active has returned false on the transfer returns
\* at once: it never finds the transfer active and never takes a turn of its loop
C2_WaitAfterDoneReturnsAtOnce ==
    ~(pc = "wait_err" /\ cur.after_done)

\* C3: a transfer on whose channel the hardware raised the error flag before the
\* completion flag never resolves with the success outcome
C3_ErrorFirstNeverOk ==
    (ret.op = "wait" /\ ret.first = "error") => ret.result = "Err"

\* C4: with the hardware raising a flag on every enabled channel, every wait
\* that was entered returns
C4_WaitReturns ==
    (cur.op = "wait") ~> (ret.op = "wait")

\* C5: wait hands back the target, channel and buffer given to new, whichever
\* the outcome, and no software step changes the contents of a buffer
C5_RoundTrip ==
    /\ [](ret.op = "wait" => ret.res = ret.given)
    /\ [][SwVars' # SwVars => mem' = mem]_vars

C5_Witness ==
    /\ ret.op = "wait"
    /\ mem[ret.res.buffer] = 1

\* C6: new aborts only for a buffer longer than 65535 bytes, it always aborts
\* for one, and it has written no channel register when it aborts
C6_LengthCheck ==
    /\ pc = "panicked" => (BufLen(cur.buffer) > 65535 /\ log = <<>>)
    /\ (cur.op = "new" /\ BufLen(cur.buffer) > 65535) =>
           (pc \in {"new_assert", "panicked"} /\ log = <<>>)
    /\ \A s \in Slots : transfers[s] # NoTransfer =>
           BufLen(transfers[s].res.buffer) <= 65535

C6_Witness ==
    /\ pc = "panicked"
    /\ \E s \in Slots : /\ transfers[s] # NoTransfer
                        /\ BufLen(transfers[s].res.buffer) = 65535

\* C7: no two transfers hold the same channel
C7_ChannelExclusive ==
    \A s1, s2 \in Slots :
        (s1 # s2 /\ transfers[s1] # NoTransfer /\ transfers[s2] # NoTransfer) =>
            transfers[s1].res.channel # transfers[s2].res.channel

\* C8: a transfer becomes Started only from Ready and only by the enabling
\* step of start; a Started transfer stays Started until wait resolves it
C8_Monotonic ==
    [][\A s \in Slots :
          /\ (transfers'[s].state = "Started" /\ transfers[s].state # "Started") =>
                 (transfers[s].state = "Ready" /\ pc = "start_en" /\ cur.slot = s)
          /\ transfers[s].state = "Started" =>
                 \/ transfers'[s].state = "Started"
                 \/ /\ transfers'[s] = NoTransfer
                    /\ ret'.op = "wait"
                    /\ ret'.slot = s
                    /\ ret'.result \in {"Ok", "Err"}]_vars

C8_Witness ==
    \E s \in Slots : /\ transfers[s].state = "Started"
                      /\ transfers[s].done
                      /\ poll.op = "is_active"

\* C9: when wait has returned success the channel is disabled and its
\* completion flag is clear
C9_SuccessLeavesChannelDisabled ==
    (ret.op = "wait" /\ ret.result = "Ok") =>
        (~ccr[ret.res.channel].en /\ ~tcif[ret.res.channel])

C9_Witness ==
    ret.op = "wait" /\ ret.result = "Ok"

\* C10: the step in which wait returns failure leaves the channel's error flag
\* clear and hands back the target, channel and buffer given to new
C10_FailureClearsError ==
    [][(ret'.op = "wait" /\ ret'.result = "Err" /\ ret' # ret) =>
          (~teif'[ret'.res.channel] /\ ret'.res = ret'.given)]_vars

C10_Witness ==
    ret.op = "wait" /\ ret.result = "Err"

\* C11: when wait has returned failure the channel is disabled
C11_FailureLeavesChannelDisabled ==
    (ret.op = "wait" /\ ret.result = "Err") => ~ccr[ret.res.channel].en

\* C12: an is_active call that reads TCIF clear returns true and changes no flag
\* and no register; one that reads TCIF set clears that flag and the channel's EN,
\* changes nothing else, and returns false
C12_IsActiveEffect ==
    [][(/\ poll'.op = "is_active"
        /\ (SwVars' # SwVars \/ \E i \in Channels : tcif[i] /\ ~tcif'[i]))
       => LET c == transfers[poll'.slot].res.channel
          IN IF tcif[c]
             THEN /\ ~poll'.value
                  /\ tcif' = [tcif EXCEPT ![c] = FALSE]
                  /\ ccr' = [ccr EXCEPT ![c].en = FALSE]
                  /\ UNCHANGED <<cselr, cpar, cmar, cndtr, teif, mem>>
             ELSE /\ poll'.value
                  /\ UNCHANGED <<regs, mem>>]_vars

C12_Witness ==
    /\ poll.op = "is_active" /\ ~poll.value /\ ~poll.after_done
    /\ ~ccr[transfers[poll.slot].res.channel].en

\* C13: new programs the channel in the order request selection, peripheral
\* address, memory address (the buffer's), transfer length (the buffer's), control
\* register; no step of new sets EN, the finished construction leaves EN clear,
\* and EN only ever rises in the enabling step of start
C13_ProgramOrder ==
    /\ [](cur.op = "new" =>
             /\ Len(log) <= 4
             /\ log = SubSeq(<<"cselr", "cpar", "cmar", "cndtr", "ccr">>, 1, Len(log))
             /\ Len(log) >= 1 => cselr[cur.channel] = REQUEST(cur.target) % CxsMod
             /\ Len(log) >= 2 => cpar[cur.channel] = cur.address
             /\ Len(log) >= 3 => cmar[cur.channel] = BufAddr(cur.buffer)
             /\ Len(log) >= 4 => cndtr[cur.channel] = BufLen(cur.buffer))
    /\ [](ret.op = "new" =>
             /\ log = <<"cselr", "cpar", "cmar", "cndtr", "ccr">>
             /\ cmar[transfers[ret.slot].res.channel]
                   = BufAddr(transfers[ret.slot].res.buffer)
             /\ cndtr[transfers[ret.slot].res.channel]
                   = BufLen(transfers[ret.slot].res.buffer)
             /\ ~ccr[transfers[ret.slot].res.channel].en)
    /\ [][\A c \in Channels : (~ccr[c].en /\ ccr'[c].en) =>
             /\ pc = "start_en"
             /\ c = transfers[cur.slot].res.channel]_vars

C13_Witness ==
    /\ ret.op = "start"
    /\ ccr[transfers[ret.slot].res.channel].en
    /\ cmar[transfers[ret.slot].res.channel] = BufAddr(transfers[ret.slot].res.buffer)

\* C14: in start the fence is issued before EN is set: the enabling step of start
\* is only reached with the fence of that call issued, and a returned start has
\* done fence, then enable
C14_FenceBeforeEnable ==
    /\ pc = "start_en" => log = <<"fence">>
    /\ ret.op = "start" => log = <<"fence", "en">>

C14_Witness ==
    /\ ret.op = "start"
    /\ log = <<"fence", "en">>
    /\ transfers[ret.slot].state = "Started"
    /\ ccr[transfers[ret.slot].res.channel].en

\* C15: when wait returns success, a fence was issued after the loop observed
\* completion and before the final error check and the return of the resources
C15_FenceAfterCompletion ==
    /\ pc = "wait_check" => log = <<"complete", "fence">>
    /\ (ret.op = "wait" /\ ret.result = "Ok") => log = <<"complete", "fence", "check">>

C15_Witness ==
    /\ ret.op = "wait" /\ ret.result = "Ok"
    /\ ret.res.buffer \in bufs
    /\ log = <<"complete", "fence", "check">>

\* C16: a software operation on one channel (a step of new, start, is_active or
\* wait) leaves the request selector, the address, count and control registers
\* and both flags of every other channel unchanged
C16_ChannelsDisjoint ==
    [][(SwVars' # SwVars \/ \E i \in Channels : tcif[i] /\ ~tcif'[i])
       => LET opc == IF cur.op = "new" THEN cur.channel
                     ELSE IF cur.op \in {"start", "wait"}
                          THEN transfers[cur.slot].res.channel
                     ELSE IF poll'.op = "is_active"
                          THEN transfers[poll'.slot].res.channel
                     ELSE 0
          IN \A j \in Channels \ {opc} :
                /\ cselr'[j] = cselr[j] /\ cpar'[j] = cpar[j] /\ cmar'[j] = cmar[j]
                /\ cndtr'[j] = cndtr[j] /\ ccr'[j] = ccr[j]
                /\ tcif'[j] = tcif[j] /\ teif'[j] = teif[j]]_vars

C16_Witness ==
    \E s, u \in Slots :
        /\ transfers[s].state = "Started" /\ transfers[u].state = "Started"
        /\ transfers[s].res.channel # transfers[u].res.channel
        /\ poll.op = "is_active" /\ poll.slot = s /\ ~poll.value
        /\ ccr[transfers[u].res.channel].en
        /\ cselr[transfers[u].res.channel] # 0

\* C17: whenever a transfer is Ready its channel's EN is clear
C17_ReadyIsDisabled ==
    \A s \in Slots :
        transfers[s].state = "Ready" => ~ccr[transfers[s].res.channel].en

\* C18: the final check of wait, made once after the fence, decides the outcome:
\* failure with the resources if TEIF is set at that check, success only if it
\* is clear
C18_FinalCheckDecides ==
    [][/\ (pc = "wait_check" /\ pc' # pc)
          => (/\ log = <<"complete", "fence">>
              /\ ret'.op = "wait"
              /\ ret'.res = transfers[cur.slot].res
              /\ ret'.result = IF teif[transfers[cur.slot].res.channel] THEN "Err" ELSE "Ok")
       /\ ((ret.op # "wait" /\ ret'.op = "wait" /\ ret'.result = "Ok")
           => /\ pc = "wait_check"
              /\ ~teif[transfers[cur.slot].res.channel])]_vars

C18_Witness ==
    /\ ret.op = "wait" /\ ret.result = "Err"
    /\ log = <<"complete", "fence", "check">>
    /\ ret.res.buffer \in bufs

C20_NoStaleFlags ==
    pc = "start_en" =>
        /\ ~tcif[transfers[cur.slot].res.channel]
        /\ ~teif[transfers[cur.slot].res.channel]

====
